---------------------------- MODULE Spec2Model ----------------------------
(***************************************************************************)
(* The arithmetic worksheet tools: genlatex.py writes a LaTeX document of  *)
(* stacked addition and subtraction problems, latex_to_image.py reads such *)
(* a file back, extracts the array blocks, lays each one out as aligned    *)
(* text and places it in one cell of a figure grid.                        *)
(*                                                                         *)
(* Text is modelled as sequences of one-character strings, so that         *)
(* formatting, searching, splitting and stripping are computed as the      *)
(* code computes them.                                                     *)
(***************************************************************************)
EXTENDS Integers, Sequences, FiniteSets, TLC

(***************************************************************************)
(* Bounds of the model.                                                    *)
(***************************************************************************)
\* A random draw from randint(lo, hi) is taken less than a spread away from
\* one of the range ends the program uses (Landmarks): DrawSpread for the
\* draws of a two-operand problem, MultiSpread for those of a three- or
\* four-operand problem.
DrawSpread == 2

MultiSpread == 1

\* The generator is run with -t in -TotalBound..TotalBound.
TotalBound == 6

\* A caller of generate_latex_document passes 0..MaxRows rows of
\* 1..MaxPerRow problems.
MaxRows == 2

MaxPerRow == 2

\* The random source of a document run repeats with this period.
TapePeriod == 2

\* An image input holds up to MaxBlocks copies of a block, or one block of
\* up to MaxLines lines.
MaxBlocks == 10

MaxLines == 3

(***************************************************************************)
(* Text helpers (Python str methods and the re patterns the code uses).    *)
(***************************************************************************)
Min(S) == CHOOSE x \in S : \A y \in S : x <= y

Max(S) == 0 - Min({0 - x : x \in S})

\* Characters that str.strip() removes and that \s matches.
Whitespace == {" ", "\n", "\t", "\r"}

DigitChars == <<"0","1","2","3","4","5","6","7","8","9">>

\* str(n) for n >= 0, as the f-strings and the % operator format an int.
RECURSIVE Str(_)
Str(n) == IF n < 10 THEN <<DigitChars[n + 1]>>
          ELSE Str(n \div 10) \o <<DigitChars[(n % 10) + 1]>>

\* Whether pat occurs in s at index i.
MatchAt(s, pat, i) ==
    /\ i >= 1
    /\ i + Len(pat) - 1 <= Len(s)
    /\ s[i] = pat[1]
    /\ SubSeq(s, i, i + Len(pat) - 1) = pat

\* Index of the first occurrence of pat in s at or after from, 0 when none
\* (str.find, and the leftmost match of a literal pattern).
Find(s, pat, from) ==
    LET hits == {i \in from..(Len(s) - Len(pat) + 1) : MatchAt(s, pat, i)}
    IN  IF hits = {} THEN 0 ELSE Min(hits)

\* s.strip()
Strip(s) ==
    LET keep == {i \in 1..Len(s) : s[i] \notin Whitespace}
    IN  IF keep = {} THEN <<>> ELSE SubSeq(s, Min(keep), Max(keep))

\* s.startswith(pat)
StartsWith(s, pat) == Len(pat) <= Len(s) /\ SubSeq(s, 1, Len(pat)) = pat

\* s.endswith(pat)
EndsWith(s, pat) ==
    Len(pat) <= Len(s) /\ SubSeq(s, Len(s) - Len(pat) + 1, Len(s)) = pat

\* s.replace(pat, ''): every non-overlapping occurrence, left to right.
RECURSIVE Remove(_, _)
Remove(s, pat) ==
    LET i == Find(s, pat, 1)
    IN  IF i = 0 THEN s
        ELSE SubSeq(s, 1, i - 1) \o Remove(SubSeq(s, i + Len(pat), Len(s)), pat)

\* s.split(sep): the pieces between non-overlapping occurrences of sep.
RECURSIVE Split(_, _)
Split(s, sep) ==
    LET i == Find(s, sep, 1)
    IN  IF i = 0 THEN <<s>>
        ELSE <<SubSeq(s, 1, i - 1)>> \o Split(SubSeq(s, i + Len(sep), Len(s)), sep)

\* sep.join(parts)
RECURSIVE Join(_, _)
Join(parts, sep) ==
    IF parts = <<>> THEN <<>>
    ELSE IF Len(parts) = 1 THEN parts[1]
    ELSE parts[1] \o sep \o Join(Tail(parts), sep)

\* c * n
RECURSIVE Repeat(_, _)
Repeat(c, n) == IF n <= 0 THEN <<>> ELSE <<c>> \o Repeat(c, n - 1)

\* s.rjust(width)
RJust(s, width) == Repeat(" ", width - Len(s)) \o s

(***************************************************************************)
(* genlatex.py: generate_problem_latex                                     *)
(***************************************************************************)
\* The random source.  Every randint range of the program ends at one of
\* these values; a modelled draw lies near one of them and inside the range.
Landmarks == {1, 10, 50, 99, 999}

Randint(lo, hi, spread) ==
    {x \in lo..hi : \E m \in Landmarks : x - m < spread /\ m - x < spread}

\* The literals of the serialization.
OperationTypes == {"plus", "minus", "mix"}

LineContinuation == <<" ","\\","\\","\n">>              \* " \\\\\n" : space, two backslashes, newline

HlineSuffix == <<" ","\\","\\","\n"," ","\\","h","l","i","n","e"," ">>         \* " \\\\\n \\hline "

ArrayOpen == <<"$"," ","\\","b","e","g","i","n","{","a","r","r","a","y","}","{","r","}","\n">>     \* "$ \\begin{array}{r}\n"

ArrayClose == <<"\n","\\","e","n","d","{","a","r","r","a","y","}"," ","$">>         \* "\n\\end{array} $"

\* Lines 19-21: the swap that keeps the minuend the larger operand.
SubtractionFixupNoSwap(num1, num2, inc) ==
    IF num1 <= num2 THEN <<num1 + inc, num2>> ELSE <<num1, num2>>

SubtractionFixup(num1, num2, inc) ==
    IF num1 <= num2 THEN <<num2 + inc, num1>> ELSE <<num1, num2>>

\* Lines 36-42: one operator per gap; 'minus' appends nothing here.
MultiOperators(operation_type, n_numbers) ==
    IF operation_type \in {"plus", "mix"}
    THEN [k \in 1..(n_numbers - 1) |-> "+"]
    ELSE <<>>

\* Lines 7-42: the operands and operators for the draws d:
\* d.n = randint(2, max_stack_height), d.num1 = randint(10, 999),
\* d.num2 = randint(1, 99), d.coin = random.choice([True, False]),
\* d.inc = randint(10, 50), d.multi[k] = the k-th randint(1, 99).
Synthesize(operation_type, d) ==
    IF d.n = 2
    THEN IF operation_type = "minus" \/ (operation_type = "mix" /\ d.coin)
         THEN [numbers |-> SubtractionFixup(d.num1, d.num2, d.inc),
               operators |-> <<"-">>]
         ELSE [numbers |-> <<d.num1, d.num2>>, operators |-> <<"+">>]
    ELSE [numbers |-> [k \in 1..d.n |-> d.multi[k]],
          operators |-> MultiOperators(operation_type, d.n)]

\* Line 58 with the missing line-continuation marker.
JoinPartsNoMarker(latex_parts) == Join(latex_parts, <<"\n">>)

\* Line 58: " \\\\\n".join(latex_parts)
JoinParts(latex_parts) == Join(latex_parts, LineContinuation)

\* Lines 45-64: the block for the operands and operators; operators[-1]
\* raises IndexError on an empty list.
Serialize(numbers, operators, n_numbers) ==
    IF operators = <<>> THEN [raised |-> "IndexError", latex |-> <<>>]
    ELSE LET plain == [i \in 1..(n_numbers - 1) |->
                          <<" ">> \o Str(numbers[i]) \o <<" ">>]
             last_op_char == operators[Len(operators)]
             latex_parts == Append(plain,
                 <<" ", last_op_char>> \o Str(numbers[n_numbers]) \o <<" ">>)
             problem_latex == JoinParts(latex_parts) \o HlineSuffix
         IN  [raised |-> "", latex |-> ArrayOpen \o problem_latex \o ArrayClose]

\* Lines 4-64.
generate_problem_latex(operation_type, d) ==
    LET p == Synthesize(operation_type, d)
        s == Serialize(p.numbers, p.operators, d.n)
    IN  [n_numbers |-> d.n, numbers |-> p.numbers, operators |-> p.operators,
         raised |-> s.raised, latex |-> s.latex]

(***************************************************************************)
(* latex_to_image.py: extraction of the array blocks                       *)
(***************************************************************************)
BeginDocument == <<"\\","b","e","g","i","n","{","d","o","c","u","m","e","n","t","}">>

EndDocument == <<"\\","e","n","d","{","d","o","c","u","m","e","n","t","}">>

BeginTabular == <<"\\","b","e","g","i","n","{","t","a","b","u","l","a","r","}","{">>       \* the literal head of the tabular pattern

EndTabular == <<"\\","e","n","d","{","t","a","b","u","l","a","r","}">>

BeginArray == <<"\\","b","e","g","i","n","{","a","r","r","a","y","}">>

BeginArrayR == <<"\\","b","e","g","i","n","{","a","r","r","a","y","}","{","r","}">>

EndArray == <<"\\","e","n","d","{","a","r","r","a","y","}">>

Hline == <<"\\","h","l","i","n","e">>

DoubleBackslash == <<"\\","\\">>

\* Index of the first character of s at or after from that is not
\* whitespace (Len(s) + 1 when none): where a greedy \s* stops.
SkipSpace(s, from) ==
    LET stop == {i \in from..Len(s) : s[i] \notin Whitespace}
    IN  IF stop = {} THEN Len(s) + 1 ELSE Min(stop)

\* Start of the run of whitespace that ends right before index t, not
\* below floor: where a lazy group followed by \s* ends.
BackSpace(s, t, floor) ==
    LET stop == {i \in floor..(t - 1) : s[i] \notin Whitespace}
    IN  IF stop = {} THEN floor ELSE Max(stop) + 1

\* Lines 29-33: re.search(r'\\begin\{document\}(.*?)\\end\{document\}', DOTALL);
\* the group when it matches, the whole text otherwise.
DocumentContent(latex_content) ==
    LET b == Find(latex_content, BeginDocument, 1)
        e == IF b = 0 THEN 0
             ELSE Find(latex_content, EndDocument, b + Len(BeginDocument))
    IN  IF e = 0 THEN latex_content
        ELSE SubSeq(latex_content, b + Len(BeginDocument), e - 1)

\* Lines 37-39: re.search(r'\\begin\{tabular\}\{.*?\}\s*(.*?)\s*\\end\{tabular\}',
\* DOTALL): the lazy column spec ends at the first closing brace, the group
\* runs from the first non-space character after it to the whitespace
\* before the first \end{tabular}.
TabularContent(processed_content) ==
    LET s == processed_content
        b == Find(s, BeginTabular, 1)
        q == IF b = 0 THEN 0 ELSE Find(s, <<"}">>, b + Len(BeginTabular))
        w == IF q = 0 THEN 0 ELSE SkipSpace(s, q + 1)
        t == IF q = 0 THEN 0 ELSE Find(s, EndTabular, w)
    IN  IF t = 0 THEN s ELSE SubSeq(s, w, BackSpace(s, t, w) - 1)

\* The positions in S in increasing order.
RECURSIVE Sorted(_)
Sorted(S) == IF S = {} THEN <<>> ELSE <<Min(S)>> \o Sorted(S \ {Min(S)})

\* A greedy pattern r'\$(.*)\$': one span from the first to the last dollar.
FindAllMathGreedy(processed_content) ==
    LET dollars == {i \in 1..Len(processed_content) : processed_content[i] = "$"}
    IN  IF Cardinality(dollars) < 2 THEN <<>>
        ELSE <<SubSeq(processed_content, Min(dollars) + 1, Max(dollars) - 1)>>

\* Line 44: re.findall(r'\$(.*?)\$', DOTALL): the text between the 1st and
\* 2nd dollar, the 3rd and 4th, ...; an unpaired last dollar opens nothing.
FindAllMath(processed_content) ==
    LET dollars == Sorted({i \in 1..Len(processed_content) :
                              processed_content[i] = "$"})
    IN  [k \in 1..(Len(dollars) \div 2) |->
            SubSeq(processed_content, dollars[2 * k - 1] + 1, dollars[2 * k] - 1)]

\* Line 50: re.search(r'^\s*(\\begin\{array\}.*?\\end\{array\})\s*$', DOTALL)
\* matches when the span, stripped, opens with \begin{array} and closes
\* with an \end{array} that starts after it.
ArrayMatches(raw_expr) ==
    LET t == Strip(raw_expr)
    IN  /\ StartsWith(t, BeginArray)
        /\ EndsWith(t, EndArray)
        /\ Len(t) >= Len(BeginArray) + Len(EndArray)

\* Lines 27-52: the blocks of a file's text, in order.
ExtractBlocks(latex_content) ==
    LET all_raw_math_expressions ==
            FindAllMath(TabularContent(DocumentContent(latex_content)))
        hits == SelectSeq(all_raw_math_expressions, ArrayMatches)
    IN  [k \in 1..Len(hits) |-> Strip(hits[k])]

(***************************************************************************)
(* latex_to_image.py: parsing and layout of one block                      *)
(***************************************************************************)
\* Lines 90-94: the raw lines of a block.
RawLines(latex_block) ==
    Split(Remove(Remove(Remove(latex_block, BeginArrayR), EndArray), <<"&">>),
          DoubleBackslash)

\* Lines 101-124: one raw line; "empty" lines are skipped by the loop.
ParseLine(raw_line) ==
    LET line_content == Strip(raw_line)
    IN  IF line_content = <<>> THEN [type |-> "empty"]
        ELSE IF Find(line_content, Hline, 1) # 0 THEN [type |-> "hline"]
        ELSE IF line_content[1] \in {"+", "-"}
        THEN [type |-> "number", operator |-> line_content[1],
              number_string |-> Strip(Tail(line_content))]
        ELSE [type |-> "number", operator |-> "",
              number_string |-> line_content]

IsParsedLine(line_data) == line_data.type # "empty"

\* Lines 96-124: parsed_lines_data.
ParseBlock(latex_block) ==
    LET raw_lines == RawLines(latex_block)
    IN  SelectSeq([k \in 1..Len(raw_lines) |-> ParseLine(raw_lines[k])],
                  IsParsedLine)

NumberLines(parsed_lines_data) ==
    {k \in 1..Len(parsed_lines_data) : parsed_lines_data[k].type = "number"}

\* Lines 97, 118.
MaxNumberPartLen(parsed_lines_data) ==
    Max({0} \cup {Len(parsed_lines_data[k].number_string) :
                     k \in NumberLines(parsed_lines_data)})

\* Lines 98, 115.
HasOperatorColumn(parsed_lines_data) ==
    \E k \in NumberLines(parsed_lines_data) : parsed_lines_data[k].operator # ""

\* Line 128.
OperatorColWidth(parsed_lines_data) ==
    IF HasOperatorColumn(parsed_lines_data) THEN 2 ELSE 0

\* Line 132.
min_hline_width == 5

\* Lines 133-134.
FinalDisplayWidth(parsed_lines_data) ==
    Max({MaxNumberPartLen(parsed_lines_data) + OperatorColWidth(parsed_lines_data),
         min_hline_width})

\* Line 142 without the padding.
PaddedNumberUnpadded(number_string, width) == number_string

\* Line 142: line_data['number_string'].rjust(max_number_part_len)
PaddedNumber(number_string, width) == RJust(number_string, width)

\* Lines 136-153: aligned_output_lines.
AlignedOutputLines(parsed_lines_data) ==
    [k \in 1..Len(parsed_lines_data) |->
        LET line_data == parsed_lines_data[k]
        IN  IF line_data.type = "hline"
            THEN Repeat("-", FinalDisplayWidth(parsed_lines_data))
            ELSE LET operator_prefix ==
                         IF HasOperatorColumn(parsed_lines_data)
                         THEN IF line_data.operator # ""
                              THEN <<line_data.operator, " ">>
                              ELSE <<" ", " ">>
                         ELSE <<>>
                 IN  operator_prefix \o
                     PaddedNumber(line_data.number_string,
                                  MaxNumberPartLen(parsed_lines_data))]

(***************************************************************************)
(* latex_to_image.py: the figure grid                                      *)
(***************************************************************************)
\* floor(sqrt(n)) in place of the ceiling.
NcolsFloor(num_blocks) == Max({c \in 0..num_blocks : c * c <= num_blocks})

\* Line 62: int(np.ceil(np.sqrt(num_blocks)))
Ncols(num_blocks) == Min({c \in 0..num_blocks : c * c >= num_blocks})

\* Lines 65-68: int(np.ceil(num_blocks / ncols)), 0 for no blocks.
Nrows(num_blocks, ncols) ==
    IF num_blocks > 0 THEN (num_blocks + ncols - 1) \div ncols ELSE 0

(***************************************************************************)
(* genlatex.py: generate_latex_document and main                           *)
(***************************************************************************)
\* Lines 70-79, up to the %s that receives num_problems_per_row (the %
\* operator turns each %% of the literal into one %).
HeaderHead ==
    <<"\\","d","o","c","u","m","e","n","t","c","l","a","s","s","{","a","r","t","i","c","l","e","}","\n">> \o
    <<"\\","u","s","e","p","a","c","k","a","g","e","{","a","m","s","m","a","t","h","}"," ","%"," ","R","e","q","u","i","r","e","d"," ","f","o","r"," ","t","h","e"," ","a","l","i","g","n"," ","e","n","v","i","r","o","n","m","e","n","t",","," ","e","t","c",".","\n">> \o
    <<"\\","u","s","e","p","a","c","k","a","g","e","{","g","e","o","m","e","t","r","y","}"," ","%"," ","F","o","r"," ","p","a","g","e"," ","m","a","r","g","i","n","s","\n">> \o
    <<"\\","g","e","o","m","e","t","r","y","{","a","4","p","a","p","e","r",","," ","m","a","r","g","i","n","=","1","i","n","}"," ","%"," ","S","e","t"," ","m","a","r","g","i","n","s","\n">> \o
    <<"\n">> \o
    <<"\\","b","e","g","i","n","{","d","o","c","u","m","e","n","t","}","\n">> \o
    <<"\\","c","e","n","t","e","r","i","n","g","\n">> \o
    <<"\n">> \o
    <<"\\","b","e","g","i","n","{","t","a","b","u","l","a","r","}","{","*","{">>

\* Line 78, after the %s.
HeaderTail == <<"}","{","c","}","}","\n">>

\* Lines 81-83.
Footer == <<"\\","e","n","d","{","t","a","b","u","l","a","r","}","\n">> \o <<"\n">> \o <<"\\","e","n","d","{","d","o","c","u","m","e","n","t","}">>

\* Line 90: the separator of the cells of a row.
CellSeparator == <<" ","&"," ">>

\* Line 94: the row break, " \\\\".
RowBreak == <<" ","\\","\\">>

\* Lines 70-79: header, with % num_problems_per_row applied.
Header(num_problems_per_row) ==
    HeaderHead \o Str(num_problems_per_row) \o HeaderTail

\* Lines 90-96: the text of row r (0-based) of num_rows.
RowText(row_problems, r, num_rows) ==
    Join(row_problems, CellSeparator)
        \o (IF r < num_rows - 1 THEN RowBreak ELSE <<>>)
        \o <<"\n">>

\* "".join(problems_content)
RECURSIVE Concat(_)
Concat(parts) == IF parts = <<>> THEN <<>> ELSE parts[1] \o Concat(Tail(parts))

\* Line 98.
DocumentText(num_problems_per_row, problems_content) ==
    Header(num_problems_per_row) \o Concat(problems_content) \o Footer

\* Line 130.
RowWidth == 5

\* Floor division in place of the ceiling division of line 131.
ComputeNumRowsFloor(total_problems, num_problems_per_row) ==
    LET q == total_problems \div num_problems_per_row
    IN  IF q = 0 THEN 1 ELSE q

\* Lines 131-132.
ComputeNumRows(total_problems, num_problems_per_row) ==
    LET q == (total_problems + num_problems_per_row - 1) \div num_problems_per_row
    IN  IF q = 0 THEN 1 ELSE q

\* Line 135.
ActualMaxStackHeight(stack_height) == Max({2, Min({stack_height, 4})})

(***************************************************************************)
(* State                                                                   *)
(***************************************************************************)
VARIABLES
    entry,                \* "main", "call" (generate_latex_document called
                          \* directly), "problem" (generate_problem_latex
                          \* called alone) or "none" (image tool alone)
    operation_type,       \* args.operation
    stack_height,         \* args.stack_height
    total_problems,       \* args.total_problems
    num_problems_per_row,
    num_rows,
    gpc,                  \* position of the generator
    r,                    \* the row loop's index
    row_problems,         \* the blocks of the row being built
    problems_content,     \* the finished rows
    generated,            \* every block generated so far, in order
    tape,                 \* the draws the random source will return
    problem,              \* what the last generate_problem_latex call built
    parsed,               \* the parsed blocks of the problem generated alone
    gen_raised,           \* the exception that ended the generator, or ""
    fs,                   \* the .tex file: [exists, readable, text]
    stdout,               \* the messages printed, in order
    ipc,                  \* position of generate_image_from_latex_file
    latex_content,
    math_blocks,
    ncols,
    nrows,
    i,                    \* the block loop's index
    figure_created,       \* plt.figure was called
    figure_open,          \* the figure is not closed yet
    subplots,             \* one [index, parsed, lines] per placed block
    out_written,          \* the output image file was written
    img_raised            \* the exception that ended the image run, or ""

genvars == <<entry, operation_type, stack_height, total_problems,
             num_problems_per_row, num_rows, gpc, r, row_problems,
             problems_content, generated, tape, problem, parsed, gen_raised>>

imgvars == <<ipc, latex_content, math_blocks, ncols, nrows, i, figure_created,
             figure_open, subplots, out_written, img_raised>>

vars == <<genvars, fs, stdout, imgvars>>

NoFile == [exists |-> FALSE, readable |-> FALSE, text |-> <<>>]

File(text) == [exists |-> TRUE, readable |-> TRUE, text |-> text]

\* A file that exists and whose read raises (a directory, bad encoding).
Unreadable == [exists |-> TRUE, readable |-> FALSE, text |-> <<>>]

NoProblem == [n_numbers |-> 0, numbers |-> <<>>, operators |-> <<>>,
              raised |-> "", latex |-> <<>>]

Draw(n, num1, num2, coin, inc, multi) ==
    [n |-> n, num1 |-> num1, num2 |-> num2, coin |-> coin, inc |-> inc,
     multi |-> multi]

\* The draws a document run's random source may return: a two-operand
\* draw that needs the fixup under subtraction, one that does not, and one
\* draw of three and of four operands.
TapeDraws ==
    {Draw(2, 10, 99, TRUE, 10, <<>>), Draw(2, 999, 1, FALSE, 50, <<>>),
     Draw(3, 10, 1, FALSE, 10, <<1, 99, 50>>),
     Draw(4, 10, 1, FALSE, 10, <<99, 1, 10, 50>>)}

Tapes(max_stack_height) ==
    {t \in [1..TapePeriod -> TapeDraws] :
        \A k \in 1..TapePeriod : t[k].n <= max_stack_height}

ImageIdle ==
    /\ ipc = "start"
    /\ latex_content = <<>>
    /\ math_blocks = <<>>
    /\ ncols = 0
    /\ nrows = 0
    /\ i = 0
    /\ figure_created = FALSE
    /\ figure_open = FALSE
    /\ subplots = <<>>
    /\ out_written = FALSE
    /\ img_raised = ""

GeneratorIdle ==
    /\ num_problems_per_row = 0
    /\ num_rows = 0
    /\ r = 0
    /\ row_problems = <<>>
    /\ problems_content = <<>>
    /\ generated = <<>>
    /\ problem = NoProblem
    /\ parsed = <<>>
    /\ gen_raised = ""

(***************************************************************************)
(* The generator: main and generate_latex_document                         *)
(***************************************************************************)
\* The generator CLI is run, or generate_latex_document is called by a
\* caller that saves its result as main does; the image tool is then run
\* on the file.
Init ==
    /\ operation_type \in OperationTypes
    /\ stack_height \in 2..4
    /\ tape \in Tapes(ActualMaxStackHeight(stack_height))
    /\ entry \in {"main", "call"}
    /\ r = 0
    /\ row_problems = <<>>
    /\ problems_content = <<>>
    /\ generated = <<>>
    /\ problem = NoProblem
    /\ parsed = <<>>
    /\ gen_raised = ""
    /\ IF entry = "main"
       THEN /\ total_problems \in (-TotalBound)..TotalBound
            /\ num_problems_per_row = 0
            /\ num_rows = 0
            /\ gpc = "main"
       ELSE /\ total_problems = 0
            /\ num_problems_per_row \in 1..MaxPerRow
            /\ num_rows \in 0..MaxRows
            /\ gpc = "document"
    /\ fs = NoFile
    /\ stdout = <<>>
    /\ ImageIdle

\* Lines 129-135 of main.
MainComputeRows ==
    /\ gpc = "main"
    /\ num_problems_per_row' = RowWidth
    /\ num_rows' = ComputeNumRows(total_problems, RowWidth)
    /\ gpc' = "document"
    /\ UNCHANGED <<entry, operation_type, stack_height, total_problems, r,
                   row_problems, problems_content, generated, tape, problem,
                   parsed, gen_raised, fs, stdout, imgvars>>

\* Lines 88-89: one pass of the inner loop; an exception of
\* generate_problem_latex ends the program.
AppendProblem ==
    /\ gpc = "document"
    /\ r < num_rows
    /\ Len(row_problems) < num_problems_per_row
    /\ LET p == generate_problem_latex(operation_type,
                    tape[(Len(generated) % TapePeriod) + 1])
       IN  /\ problem' = p
           /\ IF p.raised # ""
              THEN /\ gen_raised' = p.raised
                   /\ gpc' = "crashed"
                   /\ UNCHANGED <<row_problems, generated>>
              ELSE /\ row_problems' = Append(row_problems, p.latex)
                   /\ generated' = Append(generated, p.latex)
                   /\ UNCHANGED <<gen_raised, gpc>>
    /\ UNCHANGED <<entry, operation_type, stack_height, total_problems,
                   num_problems_per_row, num_rows, r, problems_content, tape,
                   parsed, fs, stdout, imgvars>>

\* Lines 90-96: the row is complete.
FinishRow ==
    /\ gpc = "document"
    /\ r < num_rows
    /\ Len(row_problems) = num_problems_per_row
    /\ problems_content' =
           Append(problems_content, RowText(row_problems, r, num_rows))
    /\ row_problems' = <<>>
    /\ r' = r + 1
    /\ UNCHANGED <<entry, operation_type, stack_height, total_problems,
                   num_problems_per_row, num_rows, gpc, generated, tape,
                   problem, parsed, gen_raised, fs, stdout, imgvars>>

\* Line 98 and lines 144-147: the document is returned and saved.
WriteDocument ==
    /\ gpc = "document"
    /\ r >= num_rows
    /\ fs' = File(DocumentText(num_problems_per_row, problems_content))
    /\ stdout' = Append(stdout, "Generated LaTeX problems saved")
    /\ gpc' = "written"
    /\ UNCHANGED <<entry, operation_type, stack_height, total_problems,
                   num_problems_per_row, num_rows, r, row_problems,
                   problems_content, generated, tape, problem, parsed,
                   gen_raised, imgvars>>

(***************************************************************************)
(* The image tool: generate_image_from_latex_file                          *)
(***************************************************************************)
GeneratorDone == gpc \in {"written", "crashed", "none"}

\* Lines 17-25.
ReadInput ==
    /\ GeneratorDone
    /\ ipc = "start"
    /\ IF ~fs.exists
       THEN /\ stdout' = Append(stdout, "Error: Input file not found")
            /\ ipc' = "returned"
            /\ UNCHANGED latex_content
       ELSE IF ~fs.readable
       THEN /\ stdout' = Append(stdout, "Error reading input file")
            /\ ipc' = "returned"
            /\ UNCHANGED latex_content
       ELSE /\ latex_content' = fs.text
            /\ ipc' = "extract"
            /\ UNCHANGED stdout
    /\ UNCHANGED <<genvars, fs, math_blocks, ncols, nrows, i, figure_created,
                   figure_open, subplots, out_written, img_raised>>

\* The guard of line 54 left out.
NoBlocksNever(blocks) == FALSE

\* Line 54: not math_blocks
NoBlocks(blocks) == blocks = <<>>

\* Lines 27-68.
ExtractAndSize ==
    /\ ipc = "extract"
    /\ LET blocks == ExtractBlocks(latex_content)
       IN  /\ math_blocks' = blocks
           /\ IF NoBlocks(blocks)
              THEN /\ stdout' = Append(stdout, "No LaTeX array environments found")
                   /\ ipc' = "returned"
                   /\ UNCHANGED <<ncols, nrows>>
              ELSE /\ ncols' = Ncols(Len(blocks))
                   /\ nrows' = Nrows(Len(blocks), Ncols(Len(blocks)))
                   /\ ipc' = "figure"
                   /\ UNCHANGED stdout
    /\ UNCHANGED <<genvars, fs, latex_content, i, figure_created, figure_open,
                   subplots, out_written, img_raised>>

\* Lines 75-76.
CreateFigure ==
    /\ ipc = "figure"
    /\ figure_created' = TRUE
    /\ figure_open' = TRUE
    /\ i' = 0
    /\ ipc' = "blocks"
    /\ UNCHANGED <<genvars, fs, stdout, latex_content, math_blocks, ncols, nrows,
                   subplots, out_written, img_raised>>

\* Lines 78-168: one pass of the block loop.  add_subplot raises ValueError
\* for an index outside 1..nrows*ncols.
PlaceBlock ==
    /\ ipc = "blocks"
    /\ i < Len(math_blocks)
    /\ IF i + 1 > nrows * ncols
       THEN /\ img_raised' = "ValueError"
            /\ ipc' = "raised"
            /\ UNCHANGED <<i, subplots>>
       ELSE /\ LET parsed_lines_data == ParseBlock(math_blocks[i + 1])
               IN  subplots' = Append(subplots,
                       [index |-> i + 1, parsed |-> parsed_lines_data,
                        lines |-> AlignedOutputLines(parsed_lines_data)])
            /\ i' = i + 1
            /\ UNCHANGED <<img_raised, ipc>>
    /\ UNCHANGED <<genvars, fs, stdout, latex_content, math_blocks, ncols, nrows,
                   figure_created, figure_open, out_written>>

\* Lines 171-177: savefig succeeds or raises; the figure is closed either way.
SaveFigure ==
    /\ ipc = "blocks"
    /\ i = Len(math_blocks)
    /\ \E saved \in BOOLEAN :
          /\ out_written' = saved
          /\ stdout' = Append(stdout, IF saved THEN "Image successfully generated"
                                               ELSE "Error saving image")
    /\ figure_open' = FALSE
    /\ ipc' = "returned"
    /\ UNCHANGED <<genvars, fs, latex_content, math_blocks, ncols, nrows, i,
                   figure_created, subplots, img_raised>>

NextImage == ReadInput \/ ExtractAndSize \/ CreateFigure \/ PlaceBlock \/ SaveFigure

Next == MainComputeRows \/ AppendProblem \/ FinishRow \/ WriteDocument \/ NextImage

Spec == Init /\ [][Next]_vars

(***************************************************************************)
(* generate_problem_latex called alone, over the wider draws, and its      *)
(* block handed to the extraction and the block parser.                    *)
(***************************************************************************)
InitProblem ==
    /\ entry = "problem"
    /\ operation_type \in OperationTypes
    /\ stack_height \in 2..4
    /\ total_problems = 0
    /\ gpc = "problem"
    /\ tape = <<>>
    /\ GeneratorIdle
    /\ fs = NoFile
    /\ stdout = <<>>
    /\ ImageIdle

\* The draws of one call that draws n operands: the coin is tossed in
\* 'mix' mode only (line 17), the increment is drawn only when a
\* subtraction has num1 <= num2 (lines 19-21); a draw that is not made is
\* given as FALSE or 10.
DrawsOfCall(op, n) ==
    IF n = 2
    THEN {d \in {Draw(n, num1, num2, coin, inc, <<>>) :
                    num1 \in Randint(10, 999, DrawSpread),
                    num2 \in Randint(1, 99, DrawSpread),
                    coin \in BOOLEAN,
                    inc \in Randint(10, 50, DrawSpread)} :
             /\ d.coin => op = "mix"
             /\ d.inc # 10 =>
                   (d.num1 <= d.num2 /\ (op = "minus" \/ (op = "mix" /\ d.coin)))}
    ELSE {Draw(n, 10, 1, FALSE, 10, multi) :
             multi \in [1..n -> Randint(1, 99, MultiSpread)]}

\* One call generate_problem_latex(operation_type, max_stack_height); the
\* draws the random source returned are kept in tape.
CallGenerateProblem ==
    /\ gpc = "problem"
    /\ \E n \in 2..ActualMaxStackHeight(stack_height) :
          \E d \in DrawsOfCall(operation_type, n) :
             /\ tape' = <<d>>
             /\ problem' = generate_problem_latex(operation_type, d)
    /\ gen_raised' = problem'.raised
    /\ gpc' = IF problem'.raised # "" THEN "raised" ELSE "generated"
    /\ generated' = IF problem'.raised # "" THEN <<>> ELSE <<problem'.latex>>
    /\ UNCHANGED <<entry, operation_type, stack_height, total_problems,
                   num_problems_per_row, num_rows, r, row_problems,
                   problems_content, parsed, fs, stdout, imgvars>>

\* latex_to_image.py lines 27-124 on the block: extraction, then the parse
\* of every block found.
ParseGenerated ==
    /\ gpc = "generated"
    /\ LET blocks == ExtractBlocks(problem.latex)
       IN  parsed' = [k \in 1..Len(blocks) |-> ParseBlock(blocks[k])]
    /\ gpc' = "parsed"
    /\ UNCHANGED <<entry, operation_type, stack_height, total_problems,
                   num_problems_per_row, num_rows, r, row_problems,
                   problems_content, generated, tape, problem, gen_raised,
                   fs, stdout, imgvars>>

NextProblem == CallGenerateProblem \/ ParseGenerated

SpecProblem == InitProblem /\ [][NextProblem]_vars

(***************************************************************************)
(* The image tool run alone on an input file.                              *)
(***************************************************************************)
\* The raw lines a block of an input file is made of: numbers with and
\* without a leading sign, a sign with a space, a bare sign, a rule.
SampleLines ==
    {<<" ","7"," ">>, <<" ","+","1","2"," ">>, <<" ","-"," ","3","4","5"," ">>, <<"+">>, <<" ","\\","h","l","i","n","e"," ">>}

\* A block of the given raw lines, in the generator's layout.
BlockOf(raw_lines) == ArrayOpen \o JoinParts(raw_lines) \o ArrayClose

GridBlock == BlockOf(<<<<" ","7"," ">>, <<" ","+","1","2"," ">>, <<" ","\\","h","l","i","n","e"," ">>>>)

ImageInputs ==
    {NoFile, Unreadable, File(<<"n","o"," ","m","a","t","h"," ","h","e","r","e">>)}
    \cup {File(BlockOf(raw_lines)) :
             raw_lines \in UNION {[1..n -> SampleLines] : n \in 0..MaxLines}}
    \cup {File(Join([k \in 1..n |-> GridBlock], CellSeparator)) :
             n \in 0..MaxBlocks}

InitImage ==
    /\ entry = "none"
    /\ operation_type = "plus"
    /\ stack_height = 4
    /\ total_problems = 0
    /\ gpc = "none"
    /\ tape = <<>>
    /\ GeneratorIdle
    /\ fs \in ImageInputs
    /\ stdout = <<>>
    /\ ImageIdle

SpecImage == InitImage /\ [][NextImage]_vars

(***************************************************************************)
(* Properties                                                              *)
(***************************************************************************)
\* The call of generate_problem_latex has built its operands and operators.
ProblemBuilt == entry = "problem" /\ gpc \in {"generated", "parsed", "raised"}

\* C1: every two-operand subtraction problem has a first operand greater
\* than or equal to its second operand, whatever was drawn.
C1_MinuendNotLess ==
    (ProblemBuilt /\ problem.n_numbers = 2 /\ problem.operators = <<"-">>)
        => problem.numbers[1] >= problem.numbers[2]

\* A subtraction whose draws needed the fixup (num1 <= num2) was generated.
C1_FixupApplied ==
    /\ gpc = "generated"
    /\ problem.operators = <<"-">>
    /\ tape[1].num1 < tape[1].num2
    /\ problem.numbers = <<tape[1].num2 + tape[1].inc, tape[1].num1>>

\* C2: every problem built has 2 to 4 operands and one operator fewer than
\* operands.
C2_OperandAndOperatorCounts ==
    ProblemBuilt =>
        /\ Len(problem.numbers) \in 2..4
        /\ Len(problem.operators) = Len(problem.numbers) - 1

\* C3: generation is total: no call of generate_problem_latex raises.
C3_GenerationTotal == ProblemBuilt => problem.raised = ""

\* C4: the block of a generated problem parses to one Number line per
\* operand followed by exactly one Rule line, and only the last Number line
\* carries an operator.
C4_RoundTripShape ==
    (entry = "problem" /\ gpc = "parsed") =>
        /\ Len(parsed) = 1
        /\ LET lines == parsed[1]
               n == problem.n_numbers
           IN  /\ Len(lines) = n + 1
               /\ \A k \in 1..n : lines[k].type = "number"
               /\ lines[n + 1].type = "hline"
               /\ \A k \in 1..(n - 1) : lines[k].operator = ""
               /\ lines[n].operator # ""

\* A four-operand problem and a subtraction have been parsed back.
C4_FourOperandsParsed ==
    /\ gpc = "parsed"
    /\ problem.n_numbers = 4
    /\ Len(parsed) = 1
    /\ Len(parsed[1]) = 5
    /\ parsed[1][4].operator = "+"

\* The array wrapper of a generated block: the block without its "$ " and " $".
ArrayWrapperOf(block) == SubSeq(block, 3, Len(block) - 2)

\* The image tool has finished its extraction of a saved document.
Extracted == gpc = "written" /\ ipc \in {"figure", "blocks", "returned"}

\* C5: from a document of R >= 1 rows of C >= 1 problems the extraction
\* returns exactly R*C blocks, each the array wrapper of one generated
\* problem, in the order of generation.
C5_ExtractionRecoversBlocks ==
    (Extracted /\ num_rows >= 1 /\ num_problems_per_row >= 1) =>
        /\ Len(math_blocks) = num_rows * num_problems_per_row
        /\ Len(generated) = num_rows * num_problems_per_row
        /\ \A k \in 1..Len(math_blocks) :
              math_blocks[k] = ArrayWrapperOf(generated[k])

\* Two rows of five problems, not all alike, were extracted.
C5_TwoRowsExtracted ==
    /\ Extracted
    /\ num_rows = 2
    /\ num_problems_per_row = 5
    /\ Len(math_blocks) = 10
    /\ math_blocks[1] # math_blocks[2]

\* The ceiling of a / b for b > 0.
CeilDiv(a, b) == 0 - ((0 - a) \div b)

\* main has computed num_rows.
RowsComputed == entry = "main" /\ gpc # "main"

\* C6: the number of rows is the ceiling of total/5 and never less than 1.
C6_RowsCeilingAtLeastOne ==
    RowsComputed =>
        /\ num_rows >= 1
        /\ num_rows = Max({1, CeilDiv(total_problems, RowWidth)})

\* The number of "$...$" cells of a row's text.
CellsOf(row_text) ==
    Cardinality({k \in 1..Len(row_text) : row_text[k] = "$"}) \div 2

\* main has saved a document for a total that is not a multiple of 5.
PartialTotalSaved ==
    entry = "main" /\ gpc = "written" /\ total_problems % RowWidth # 0

\* C7 as stated: for a total that is not a multiple of the row width the
\* last row holds only the requested problems and is not padded.
C7_LastRowNotPadded ==
    (PartialTotalSaved /\ total_problems >= 1) =>
        /\ Len(generated) = total_problems
        /\ CellsOf(problems_content[Len(problems_content)])
              = total_problems % RowWidth

\* C7 as amended: for a total that is not a multiple of the row width every
\* row of the document, the last one included, holds exactly 5 problems,
\* so the document holds more problems than were requested.
C7_EveryRowFull ==
    PartialTotalSaved =>
        /\ \A k \in 1..Len(problems_content) :
              CellsOf(problems_content[k]) = RowWidth
        /\ Len(generated) = RowWidth * Len(problems_content)
        /\ Len(generated) > total_problems

\* Three problems were requested and five were saved.
C7_ThreeRequestedFiveSaved ==
    /\ PartialTotalSaved
    /\ total_problems = 3
    /\ Len(problems_content) = 1
    /\ Len(generated) = 5

\* The input of the image run is missing, or holds no array block.
InputMissing == ~fs.exists

InputWithoutBlocks == fs.exists /\ fs.readable /\ ExtractBlocks(fs.text) = <<>>

\* C8: with the input file missing, or with no array block in it, the run
\* prints a message and returns: nothing is raised, no figure is created
\* and no output file is written.
C8_NoImageWithoutInput ==
    (InputMissing \/ InputWithoutBlocks) =>
        /\ ipc \in {"start", "extract", "returned"}
        /\ ~figure_created
        /\ ~out_written
        /\ img_raised = ""
        /\ ipc = "returned" =>
              stdout = IF InputMissing
                       THEN <<"Error: Input file not found">>
                       ELSE <<"No LaTeX array environments found">>

\* A run on a file without array blocks has returned.
C8_ReturnedWithoutBlocks ==
    /\ InputWithoutBlocks
    /\ Len(fs.text) > 0
    /\ ipc = "returned"
    /\ stdout = <<"No LaTeX array environments found">>

\* C9: in every placed block each Number line is shown with exactly
\* operatorColumnWidth + numberWidth characters and each Rule line as
\* max(numberWidth + operatorColumnWidth, 5) dashes, 5 without Number lines.
C9_DisplayWidths ==
    \A b \in 1..Len(subplots) :
        LET lines == subplots[b].parsed
            shown == subplots[b].lines
            numberWidth ==
                Max({0} \cup {Len(lines[k].number_string) : k \in NumberLines(lines)})
            operatorColumnWidth ==
                IF \E k \in NumberLines(lines) : lines[k].operator # ""
                THEN 2 ELSE 0
            ruleWidth == Max({numberWidth + operatorColumnWidth, 5})
        IN  /\ Len(shown) = Len(lines)
            /\ \A k \in 1..Len(lines) :
                  IF lines[k].type = "number"
                  THEN Len(shown[k]) = operatorColumnWidth + numberWidth
                  ELSE /\ Len(shown[k]) = ruleWidth
                       /\ \A c \in 1..Len(shown[k]) : shown[k][c] = "-"
                       /\ NumberLines(lines) = {} => Len(shown[k]) = 5

\* A block with a signed line, a shorter unsigned line and a rule was laid
\* out.
C9_MixedBlockPlaced ==
    \E b \in 1..Len(subplots) :
        LET lines == subplots[b].parsed
        IN  /\ Len(lines) = 3
            /\ lines[1].type = "number" /\ lines[1].operator = ""
            /\ lines[2].type = "number" /\ lines[2].operator = "-"
            /\ Len(lines[1].number_string) < Len(lines[2].number_string)
            /\ lines[3].type = "hline"

\* C10: for n >= 1 blocks the grid has rows * columns >= n and
\* rows <= columns, with columns the ceiling of sqrt(n); every block is
\* placed in a valid cell and no two blocks share one.
C10_GridHoldsBlocks ==
    (ipc \in {"figure", "blocks", "returned", "raised"} /\ Len(math_blocks) >= 1) =>
        LET n == Len(math_blocks)
        IN  /\ nrows * ncols >= n
            /\ nrows <= ncols
            /\ (ncols - 1) * (ncols - 1) < n
            /\ n <= ncols * ncols
            /\ img_raised = ""
            /\ \A b \in 1..Len(subplots) : subplots[b].index \in 1..(nrows * ncols)
            /\ \A a, b \in 1..Len(subplots) :
                  a # b => subplots[a].index # subplots[b].index

\* Seven blocks were placed on a grid of 3 rows and 3 columns.
C10_SevenBlocksPlaced ==
    /\ ipc = "returned"
    /\ Len(math_blocks) = 7
    /\ Len(subplots) = 7
    /\ ncols = 3
    /\ nrows = 3

=============================================================================
